---- MODULE Spec2Model ----
(***************************************************************************)
(* A state-machine model of the ReactGoogleReviews component               *)
(* (src/src/components/ReactGoogleReviews/ReactGoogleReviews.tsx).         *)
(*                                                                         *)
(* The state is one component instance: its props, its six useState cells, *)
(* the pending passive effect, and the promise chains of the fetches the   *)
(* effect has issued.  JavaScript values that may be null or undefined are *)
(* tagged records, so that `=== null`, `!= null` and `??` are modelled by  *)
(* what they do.  Numbers are kept in tenths (45 is 4.5) so that           *)
(* non-integers can be written.                                            *)
(***************************************************************************)
EXTENDS Integers, Sequences, FiniteSets, TLC

VARIABLES
    status,            \* "mounted", "threw" (validation raised), "unmounted"
    props,             \* the props of the latest render
    reviews,           \* useState cell, line 220
    loading,           \* useState cell, line 223
    error,             \* useState cell, line 224
    profileUrl,        \* useState cell, line 225
    totalReviewCount,  \* useState cell, line 228
    averageRating,     \* useState cell, line 231
    effectPending,     \* the effect of line 235 is scheduled and has not run
    fetches,           \* the promise chains of the fetches issued, in order
    idHistory          \* history: the values props.featurableId has taken,
                       \* each with the lifecycle state it was taken in

vars == <<status, props, reviews, loading, error, profileUrl,
          totalReviewCount, averageRating, effectPending, fetches, idHistory>>

cells == <<reviews, loading, error, profileUrl, totalReviewCount, averageRating>>

-----------------------------------------------------------------------------
(* Bounds *)

\* How many times featurableId may change after mount.
MaxReconfigs == 1

-----------------------------------------------------------------------------
(* JavaScript values *)

Null == [k |-> "null", v |-> 0, s |-> "", a |-> << >>]
Undefined == [k |-> "undefined", v |-> 0, s |-> "", a |-> << >>]
Num(n) == [k |-> "num", v |-> n, s |-> "", a |-> << >>]
Str(s) == [k |-> "str", v |-> 0, s |-> s, a |-> << >>]
Arr(a) == [k |-> "arr", v |-> 0, s |-> "", a |-> a]

\* x != null / x == null (loose: null and undefined alike)
IsNullish(x) == x.k \in {"null", "undefined"}

\* x ?? d
Coalesce(x, d) == IF IsNullish(x) THEN d ELSE x

\* if (x) for a string or undefined
Truthy(x) == x.k = "str" /\ x.s # ""

\* Number.isInteger on a number in tenths
IsInteger(x) == x.v % 10 = 0

-----------------------------------------------------------------------------
(* Reviews and configurations *)

\* GoogleReview: the reviewer's display name and anonymity flag, and the
\* comment as a sequence of characters.
Review(n, anon, c) == [name |-> n, isAnonymous |-> anon, comment |-> c]

\* A named reviewer with a plain comment; an anonymous reviewer whose
\* comment holds a double quote.
r1 == Review("r1", FALSE, <<"o", "k">>)
r2 == Review("r2", TRUE, <<"a", "\"", "b">>)

\* The review sequences a caller may supply.
SuppliedReviews == {<< >>, <<r1, r2>>, <<r2, r1>>}

\* featurableId: string (the empty string is a string)
FeaturableIds == {"", "A", "B"}

Layouts == {"carousel", "badge", "custom"}

\* totalReviewCount?: number -- absent, 12, -1, 1.5
CountInputs == {Undefined, Num(120), Num(-10), Num(15)}

\* averageRating?: number -- absent, 4.5, 0.5, 5.5
RatingInputs == {Undefined, Num(45), Num(5), Num(55)}

ProfileUrlInputs == {Undefined, Str("cfg-url")}

\* ReactGoogleReviewsProps: exactly one of reviews and featurableId is given.
Configs ==
    { [layout |-> l, reviews |-> rv, featurableId |-> fid,
       totalReviewCount |-> tc, averageRating |-> ar,
       profileUrl |-> pu, structuredData |-> sd] :
        l \in Layouts,
        rv \in {Arr(a) : a \in SuppliedReviews} \cup {Undefined},
        fid \in {Str(i) : i \in FeaturableIds} \cup {Undefined},
        tc \in CountInputs, ar \in RatingInputs,
        pu \in ProfileUrlInputs, sd \in BOOLEAN }

WellTyped(c) ==
    /\ (c.reviews = Undefined) # (c.featurableId = Undefined)
    /\ c.layout # "badge" => c.profileUrl = Undefined

IsRemote(c) == c.featurableId # Undefined
IsSupplied(c) == c.reviews # Undefined

\* A range check that leaves out both ends of the range.
InvalidExclusive(c) ==
    \/ /\ ~IsNullish(c.totalReviewCount)
       /\ (c.totalReviewCount.v < 0 \/ ~IsInteger(c.totalReviewCount))
    \/ /\ ~IsNullish(c.averageRating)
       /\ (c.averageRating.v <= 10 \/ c.averageRating.v >= 50)

\* lines 204-218: the two throw statements
Invalid(c) ==
    \/ /\ ~IsNullish(c.totalReviewCount)
       /\ (c.totalReviewCount.v < 0 \/ ~IsInteger(c.totalReviewCount))
    \/ /\ ~IsNullish(c.averageRating)
       /\ (c.averageRating.v < 10 \/ c.averageRating.v > 50)

-----------------------------------------------------------------------------
(* The widget endpoint's answers *)

\* What one fetch can end in: fetch() rejects; res.json() rejects; the body
\* is the JSON value null; the body says success: false; the body is a
\* well-formed success; a success body that omits averageRating or
\* totalReviewCount.
Outcomes == {"reject", "unparsable", "nullBody", "failure",
             "ok", "okNoRating", "okNoCount"}

SuccessOutcomes == {"ok", "okNoRating", "okNoCount"}
FailureOutcomes == {"reject", "unparsable", "nullBody", "failure"}

\* The reviews, count and rating the endpoint holds for a widget.
ServerReviews(id) == IF id = "A" THEN <<r1, r2>> ELSE <<r2>>
ServerCount(id) == IF id = "A" THEN Num(120) ELSE Num(30)
ServerRating(id) == IF id = "A" THEN Num(45) ELSE Num(40)
ServerUrl(id) == IF id = "A" THEN Str("url-A") ELSE Str("url-B")

\* FeaturableAPIResponse: the parsed body `data` of line 244. A field the
\* body omits reads as undefined.
Body(outcome, id) ==
    IF outcome \in SuccessOutcomes
    THEN [success |-> TRUE,
          reviews |-> Arr(ServerReviews(id)),
          profileUrl |-> ServerUrl(id),
          totalReviewCount |->
              IF outcome = "okNoCount" THEN Undefined ELSE ServerCount(id),
          averageRating |->
              IF outcome = "okNoRating" THEN Undefined ELSE ServerRating(id)]
    ELSE [success |-> FALSE, reviews |-> Undefined, profileUrl |-> Undefined,
          totalReviewCount |-> Undefined, averageRating |-> Undefined]

-----------------------------------------------------------------------------
(* The component function *)

RECURSIVE Reverse(_)
Reverse(q) == IF q = << >> THEN << >> ELSE Append(Reverse(Tail(q)), Head(q))

\* An initial review list that does not keep the caller's order.
InitialReviewsReversed(c) ==
    IF IsNullish(c.reviews) THEN Arr(<< >>) ELSE Arr(Reverse(c.reviews.a))

\* lines 220-222: useState(props.reviews ?? [])
InitialReviews(c) == Coalesce(c.reviews, Arr(<< >>))

\* lines 225-227
InitialProfileUrl(c) ==
    IF c.layout = "badge" THEN Coalesce(c.profileUrl, Null) ELSE Null

\* lines 228-230
InitialTotalReviewCount(c) == Coalesce(c.totalReviewCount, Null)

\* lines 231-233
InitialAverageRating(c) == Coalesce(c.averageRating, Null)

\* A dependency check that always answers "changed".
DepsAlwaysChanged(old, new) == TRUE

\* line 261: the dependency array [props.featurableId], compared by Object.is
DepsChanged(old, new) == old.featurableId # new.featurableId

\* lines 267-271: the condition of the error placeholder
ShowsError ==
    \/ error
    \/ /\ props.layout = "badge"
       /\ (averageRating = Null \/ totalReviewCount = Null)

\* lines 263-342: what the component function returns for the current cells
Render ==
    IF loading THEN "LoadingState"
    ELSE IF ShowsError THEN "ErrorState"
    ELSE props.layout

\* The lifecycle state the two flags of lines 223-224 encode.
Lifecycle ==
    IF loading THEN "Loading" ELSE IF error THEN "Error" ELSE "Ready"

\* lines 277-279: the condition of the structured-data script
EmitsStructuredData ==
    /\ props.structuredData
    /\ averageRating # Null
    /\ totalReviewCount # Null

\* lines 315-340: the three conditional layout children of the div
LayoutChildren ==
    (IF props.layout = "carousel" THEN {"Carousel"} ELSE {})
        \cup (IF props.layout = "badge" THEN {"Badge"} ELSE {})
        \cup (IF props.layout = "custom" THEN {"renderer"} ELSE {})

\* line 300: .slice(0, 10)
StructuredDataLimit == 10

\* line 299: (r) => !!r.reviewer.isAnonymous
KeptForStructuredData(r) == r.isAnonymous

\* lines 298-300: reviews.filter(...).slice(0, 10)
StructuredDataReviews ==
    LET kept == SelectSeq(reviews.a, KeptForStructuredData) IN
    SubSeq(kept, 1, IF Len(kept) < StructuredDataLimit THEN Len(kept)
                    ELSE StructuredDataLimit)

\* line 304: "${review.comment}" -- the characters the template writes for
\* the value of reviewBody
ReviewBodyText(r) == <<"\"">> \o r.comment \o <<"\"">>

\* A dispatch that tests the error condition before the loading flag.
RenderTreeErrorFirst ==
    IF ShowsError THEN {"ErrorState"}
    ELSE IF loading THEN {"LoadingState"}
    ELSE (IF EmitsStructuredData THEN {"script"} ELSE {}) \cup LayoutChildren

\* lines 263-342: the elements the component function returns
RenderTree ==
    IF loading THEN {"LoadingState"}
    ELSE IF ShowsError THEN {"ErrorState"}
    ELSE (IF EmitsStructuredData THEN {"script"} ELSE {}) \cup LayoutChildren

\* A renderer that is called whatever the lifecycle state.
RendererCallsUnguarded ==
    IF props.layout = "custom" THEN << <<reviews>> >> ELSE << >>

\* line 340: the argument lists of the calls of props.renderer in one render
RendererCalls ==
    IF "renderer" \in RenderTree THEN << <<reviews>> >> ELSE << >>

-----------------------------------------------------------------------------
(* The promise chain of lines 237-257 *)

\* A chain is at: "fetching" (the request is out), "then1" (line 243 is
\* queued), "reading" (res.json() is reading the body), "then2" (line 244 is
\* queued), "catch" (line 254 is queued), "finally" (line 257 is queued),
\* "done".
MicrotaskPcs == {"then1", "then2", "catch", "finally"}

\* A queued reaction runs before the event loop takes the next task.
MicrotaskPending == \E i \in DOMAIN fetches : fetches[i].pc \in MicrotaskPcs

NewFetch(id) == [id |-> id, pc |-> "fetching", outcome |-> "none"]

SetPc(i, pc) == fetches' = [fetches EXCEPT ![i].pc = pc]

-----------------------------------------------------------------------------
(* Initial states: the first render of every well-typed configuration *)

Init ==
    \E c \in Configs :
        /\ WellTyped(c)
        /\ props = c
        /\ fetches = << >>
        /\ IF Invalid(c)
           THEN /\ status = "threw"
                /\ reviews = Undefined
                /\ loading = FALSE
                /\ error = FALSE
                /\ profileUrl = Undefined
                /\ totalReviewCount = Undefined
                /\ averageRating = Undefined
                /\ effectPending = FALSE
                /\ idHistory = << >>
           ELSE /\ status = "mounted"
                /\ reviews = InitialReviews(c)
                /\ loading = TRUE
                /\ error = FALSE
                /\ profileUrl = InitialProfileUrl(c)
                /\ totalReviewCount = InitialTotalReviewCount(c)
                /\ averageRating = InitialAverageRating(c)
                /\ effectPending = TRUE
                /\ idHistory = IF IsRemote(c)
                               THEN <<[id |-> c.featurableId.s, from |-> "Mount"]>>
                               ELSE << >>

-----------------------------------------------------------------------------
(* Actions *)

\* lines 235-261: the effect body
RunEffect ==
    /\ status = "mounted"
    /\ effectPending
    /\ ~MicrotaskPending
    /\ effectPending' = FALSE
    /\ IF Truthy(props.featurableId)
       THEN /\ fetches' = Append(fetches, NewFetch(props.featurableId.s))
            /\ UNCHANGED loading
       ELSE /\ loading' = FALSE
            /\ UNCHANGED fetches
    /\ UNCHANGED <<status, props, reviews, error, profileUrl,
                   totalReviewCount, averageRating, idHistory>>

\* lines 201-261 on a later render: useState keeps the cells, and the effect
\* is scheduled again only when its dependency changed
RenderWith(newProps) ==
    /\ props' = newProps
    /\ effectPending' = DepsChanged(props, newProps)
    /\ idHistory' = IF props.featurableId # newProps.featurableId
                    THEN Append(idHistory, [id |-> newProps.featurableId.s,
                                            from |-> Lifecycle])
                    ELSE idHistory
    /\ UNCHANGED <<status, reviews, loading, error, profileUrl,
                   totalReviewCount, averageRating, fetches>>

\* the parent renders the component again with the same props
Rerender ==
    /\ status = "mounted"
    /\ ~effectPending
    /\ ~MicrotaskPending
    /\ RenderWith(props)

\* the parent renders the component again with another featurableId
Reconfigure ==
    /\ status = "mounted"
    /\ ~effectPending
    /\ ~MicrotaskPending
    /\ IsRemote(props)
    /\ Len(idHistory) <= MaxReconfigs
    /\ \E id \in FeaturableIds \ {props.featurableId.s} :
           RenderWith([props EXCEPT !.featurableId = Str(id)])

\* the parent removes the component; the effect of line 235 returns no
\* cleanup, so the chains go on
Unmount ==
    /\ status = "mounted"
    /\ ~effectPending
    /\ ~MicrotaskPending
    /\ status' = "unmounted"
    /\ UNCHANGED <<props, reviews, loading, error, profileUrl,
                   totalReviewCount, averageRating, effectPending, fetches,
                   idHistory>>

\* lines 237-242: the request settles
FetchSettle(i) ==
    /\ fetches[i].pc = "fetching"
    /\ ~MicrotaskPending
    /\ \E o \in Outcomes :
           fetches' = [fetches EXCEPT
               ![i].outcome = o,
               ![i].pc = IF o = "reject" THEN "catch" ELSE "then1"]
    /\ UNCHANGED <<status, props, reviews, loading, error, profileUrl,
                   totalReviewCount, averageRating, effectPending, idHistory>>

\* line 243: (res) => res.json()
Then1(i) ==
    /\ fetches[i].pc = "then1"
    /\ SetPc(i, "reading")
    /\ UNCHANGED <<status, props, reviews, loading, error, profileUrl,
                   totalReviewCount, averageRating, effectPending, idHistory>>

\* line 243: the promise of res.json() settles
JsonSettle(i) ==
    /\ fetches[i].pc = "reading"
    /\ ~MicrotaskPending
    /\ SetPc(i, IF fetches[i].outcome = "unparsable" THEN "catch" ELSE "then2")
    /\ UNCHANGED <<status, props, reviews, loading, error, profileUrl,
                   totalReviewCount, averageRating, effectPending, idHistory>>

\* Success writes that keep an aggregate figure the configuration supplied.
SuccessWritesMerged(data) ==
    /\ reviews' = data.reviews
    /\ profileUrl' = data.profileUrl
    /\ totalReviewCount' = Coalesce(props.totalReviewCount, data.totalReviewCount)
    /\ averageRating' = Coalesce(props.averageRating, data.averageRating)

\* lines 249-252: the four setters of the success path
SuccessWrites(data) ==
    /\ reviews' = data.reviews
    /\ profileUrl' = data.profileUrl
    /\ totalReviewCount' = data.totalReviewCount
    /\ averageRating' = data.averageRating

\* lines 244-253: (data) => { ... }
Then2(i) ==
    /\ fetches[i].pc = "then2"
    /\ LET data == Body(fetches[i].outcome, fetches[i].id) IN
       IF fetches[i].outcome = "nullBody"
       THEN \* data.success throws a TypeError
            /\ SetPc(i, "catch")
            /\ UNCHANGED <<reviews, error, profileUrl, totalReviewCount,
                           averageRating>>
       ELSE IF ~data.success
       THEN /\ error' = TRUE
            /\ SetPc(i, "finally")
            /\ UNCHANGED <<reviews, profileUrl, totalReviewCount,
                           averageRating>>
       ELSE /\ SuccessWrites(data)
            /\ SetPc(i, "finally")
            /\ UNCHANGED error
    /\ UNCHANGED <<status, props, loading, effectPending, idHistory>>

\* A catch handler that swallows the rejection without recording it.
CatchSwallow(i) ==
    /\ fetches[i].pc = "catch"
    /\ SetPc(i, "finally")
    /\ UNCHANGED <<status, props, reviews, loading, error, profileUrl,
                   totalReviewCount, averageRating, effectPending, idHistory>>

\* lines 254-256: () => { setError(true) }
Catch(i) ==
    /\ fetches[i].pc = "catch"
    /\ error' = TRUE
    /\ SetPc(i, "finally")
    /\ UNCHANGED <<status, props, reviews, loading, profileUrl,
                   totalReviewCount, averageRating, effectPending, idHistory>>

\* A last reaction that does not reset loading.
FinallyNoReset(i) ==
    /\ fetches[i].pc = "finally"
    /\ SetPc(i, "done")
    /\ UNCHANGED <<status, props, reviews, loading, error, profileUrl,
                   totalReviewCount, averageRating, effectPending, idHistory>>

\* line 257: () => setLoading(false)
Finally(i) ==
    /\ fetches[i].pc = "finally"
    /\ loading' = FALSE
    /\ SetPc(i, "done")
    /\ UNCHANGED <<status, props, reviews, error, profileUrl,
                   totalReviewCount, averageRating, effectPending, idHistory>>

Next ==
    \/ RunEffect
    \/ Rerender
    \/ Reconfigure
    \/ Unmount
    \/ \E i \in DOMAIN fetches : FetchSettle(i)
    \/ \E i \in DOMAIN fetches : Then1(i)
    \/ \E i \in DOMAIN fetches : JsonSettle(i)
    \/ \E i \in DOMAIN fetches : Then2(i)
    \/ \E i \in DOMAIN fetches : Catch(i)
    \/ \E i \in DOMAIN fetches : Finally(i)

Spec == Init /\ [][Next]_vars

\* The event loop runs every queued reaction, and a body that is being read
\* is read to its end; nothing makes the request itself settle.
ChainFairness ==
    /\ WF_vars(\E i \in DOMAIN fetches : Then1(i))
    /\ WF_vars(\E i \in DOMAIN fetches : JsonSettle(i))
    /\ WF_vars(\E i \in DOMAIN fetches : Then2(i))
    /\ WF_vars(\E i \in DOMAIN fetches : Catch(i))
    /\ WF_vars(\E i \in DOMAIN fetches : Finally(i))

\* The first render of the remote-mode configurations without structured
\* data, count and profile URL.
InitRemote ==
    /\ Init
    /\ IsRemote(props)
    /\ ~props.structuredData
    /\ props.totalReviewCount = Undefined
    /\ props.profileUrl = Undefined

FairSpec == InitRemote /\ [][Next]_vars /\ ChainFairness

-----------------------------------------------------------------------------
(* The first render as a step, over a wider set of configurations *)

\* totalReviewCount: absent, null, 0, 12, 1, -1, 1.5, -1.5, 0.5
ValidationCounts ==
    {Undefined, Null} \cup
    {Num(n) : n \in {0, 120, 10, -10, 15, -15, 5}}

\* averageRating: absent, null, 1, 5, 4.5, 3, 0.9, 5.1, 0, -1, 6
ValidationRatings ==
    {Undefined, Null} \cup
    {Num(n) : n \in {10, 50, 45, 30, 9, 51, 0, -10, 60}}

ValidationConfigs ==
    { [layout |-> l, reviews |-> rv, featurableId |-> fid,
       totalReviewCount |-> tc, averageRating |-> ar,
       profileUrl |-> Undefined, structuredData |-> FALSE] :
        l \in Layouts,
        rv \in {Arr(<<r1, r2>>), Undefined},
        fid \in {Str("A"), Undefined},
        tc \in ValidationCounts, ar \in ValidationRatings }

\* The element exists and the component function has not been called yet.
InitCreated ==
    \E c \in ValidationConfigs :
        /\ WellTyped(c)
        /\ status = "created"
        /\ props = c
        /\ reviews = Undefined
        /\ loading = FALSE
        /\ error = FALSE
        /\ profileUrl = Undefined
        /\ totalReviewCount = Undefined
        /\ averageRating = Undefined
        /\ effectPending = FALSE
        /\ fetches = << >>
        /\ idHistory = << >>

\* lines 201-235: the first call of the component function
FirstRender ==
    /\ status = "created"
    /\ IF Invalid(props)
       THEN /\ status' = "threw"
            /\ UNCHANGED <<reviews, loading, error, profileUrl,
                           totalReviewCount, averageRating, effectPending,
                           idHistory>>
       ELSE /\ status' = "mounted"
            /\ reviews' = InitialReviews(props)
            /\ loading' = TRUE
            /\ error' = FALSE
            /\ profileUrl' = InitialProfileUrl(props)
            /\ totalReviewCount' = InitialTotalReviewCount(props)
            /\ averageRating' = InitialAverageRating(props)
            /\ effectPending' = TRUE
            /\ idHistory' = IF IsRemote(props)
                            THEN <<[id |-> props.featurableId.s,
                                    from |-> "Mount"]>>
                            ELSE << >>
    /\ UNCHANGED <<props, fetches>>

NextValidation ==
    \/ FirstRender
    \/ RunEffect
    \/ \E i \in DOMAIN fetches : FetchSettle(i)

SpecValidation == InitCreated /\ [][NextValidation]_vars

-----------------------------------------------------------------------------
(* Claims *)

Latest == fetches[Len(fetches)]

\* A step of the continuation of fetch i.
ContinuationStep(i) == fetches'[i].pc # fetches[i].pc

\* C1 (as claimed): once a newer fetch has been issued, a step of the
\* continuation of an older fetch writes none of reviews, profileUrl,
\* totalReviewCount, averageRating, error and loading.
C1_StaleResponseNotApplied ==
    [][\A i \in DOMAIN fetches :
          (/\ status = "mounted"
           /\ i < Len(fetches)
           /\ fetches[i].id # Latest.id
           /\ ContinuationStep(i))
              => UNCHANGED cells]_vars

\* C2 (as claimed): after the unmount no step writes the six state cells.
C2_NoWriteAfterUnmount ==
    [][status = "unmounted" => UNCHANGED cells]_vars

NonEmpty(h) == h.id # ""

\* The values of featurableId whose effect has run.
EffectedIds == IF effectPending THEN SubSeq(idHistory, 1, Len(idHistory) - 1)
               ELSE idHistory

IssuedIds == [i \in DOMAIN fetches |-> fetches[i].id]

HistoryIds(h) == [i \in DOMAIN h |-> h[i].id]

LastChange == idHistory[Len(idHistory)]

\* C3 (as claimed): in remote mode the number of fetches issued is the
\* number of values featurableId has taken (one at mount, one per change).
C3_OneFetchPerIdValue ==
    (status = "mounted" /\ IsRemote(props) /\ ~effectPending)
        => Len(fetches) = Len(idHistory)

\* C3 (amended): in remote mode the fetches issued are, in order, exactly
\* the non-empty values featurableId has taken whose effect has run: one
\* fetch per non-empty value, none for the empty string, none for a render
\* with an unchanged featurableId and none after a failure.
C3_OneFetchPerNonEmptyIdValue ==
    (status \in {"mounted", "unmounted"} /\ IsRemote(props))
        => IssuedIds = HistoryIds(SelectSeq(EffectedIds, NonEmpty))

\* C3 witness: featurableId changed once, its first fetch failed and the
\* failure has been recorded, and only the non-empty value was fetched.
C3_Witness ==
    /\ status = "mounted"
    /\ ~effectPending
    /\ Len(idHistory) = 2
    /\ idHistory[2].id = ""
    /\ Len(fetches) = 1
    /\ fetches[1].pc = "done"
    /\ fetches[1].outcome = "reject"

\* C4 (as claimed): after featurableId changed to a different value on an
\* instance that was Ready or Error, the lifecycle state is Loading and the
\* loading placeholder is rendered until the new fetch completes.
C4_ReconfigureReentersLoading ==
    (/\ status = "mounted"
     /\ ~effectPending
     /\ Len(fetches) >= 2
     /\ LastChange.from \in {"Ready", "Error"}
     /\ Latest.id = props.featurableId.s
     /\ Latest.pc # "done")
        => (Lifecycle = "Loading" /\ Render = "LoadingState")

\* C5 (as claimed): after featurableId changed on an instance that was Ready
\* or Error, and the fetch for the new value completed, the lifecycle
\* state and the four resolved values are those of a fresh mount with the
\* same outcome: Ready with the body's values on success, Error on failure.
C5_ReconfigureAsFreshMount ==
    (/\ status = "mounted"
     /\ ~effectPending
     /\ Len(fetches) >= 2
     /\ LastChange.from \in {"Ready", "Error"}
     /\ Latest.id = props.featurableId.s
     /\ Latest.pc = "done")
        => IF Latest.outcome \in SuccessOutcomes
           THEN /\ Lifecycle = "Ready"
                /\ reviews = Body(Latest.outcome, Latest.id).reviews
                /\ profileUrl = Body(Latest.outcome, Latest.id).profileUrl
                /\ totalReviewCount =
                       Body(Latest.outcome, Latest.id).totalReviewCount
                /\ averageRating =
                       Body(Latest.outcome, Latest.id).averageRating
           ELSE Lifecycle = "Error"

\* C6: in remote mode with one fetch issued, the instance is Loading until
\* the chain of that fetch has run (as long as featurableId has not
\* changed), and once it has run with a well-formed success body the
\* instance is Ready, the four resolved values are exactly the body's, and
\* the layout is rendered.
C6_RemoteSuccess ==
    (status = "mounted" /\ Len(fetches) = 1)
        => /\ (Len(idHistory) = 1 /\ fetches[1].pc # "done")
                  => Lifecycle = "Loading"
           /\ (fetches[1].pc = "done" /\ fetches[1].outcome = "ok")
                  => /\ Lifecycle = "Ready"
                     /\ reviews = Arr(ServerReviews(fetches[1].id))
                     /\ profileUrl = ServerUrl(fetches[1].id)
                     /\ totalReviewCount = ServerCount(fetches[1].id)
                     /\ averageRating = ServerRating(fetches[1].id)
                     /\ Render = props.layout

\* C6 witness: a badge instance configured with its own count and rating
\* has completed its fetch with a well-formed success body.
C6_Witness ==
    /\ status = "mounted"
    /\ props.layout = "badge"
    /\ props.averageRating = Num(45)
    /\ props.totalReviewCount = Num(120)
    /\ Len(fetches) = 1
    /\ fetches[1].id = "B"
    /\ fetches[1].pc = "done"
    /\ fetches[1].outcome = "ok"
    /\ averageRating = Num(40)

\* C7: a fetch that rejected, whose body did not parse, whose body was null
\* or whose body said success: false has recorded the error before loading
\* is reset; once its chain has run the instance is in Error, not Ready, and
\* the error placeholder is rendered; until then a first fetch leaves the
\* instance Loading.
C7_RemoteFailure ==
    status = "mounted" =>
        \A i \in DOMAIN fetches :
            fetches[i].outcome \in FailureOutcomes =>
                /\ fetches[i].pc = "finally" => error
                /\ fetches[i].pc = "done" =>
                       (Lifecycle = "Error" /\ Render = "ErrorState")
                /\ (Len(fetches) = 1 /\ Len(idHistory) = 1
                        /\ fetches[i].pc # "done") => Lifecycle = "Loading"

\* C7 witness: the chain of a fetch whose body did not parse has run.
C7_Witness ==
    /\ status = "mounted"
    /\ Len(fetches) = 1
    /\ fetches[1].outcome = "unparsable"
    /\ fetches[1].pc = "done"

\* C8 (as claimed): with layout badge, once loading is over, an absent
\* averageRating or totalReviewCount means the error placeholder is rendered.
C8_BadgeGuard ==
    (/\ status = "mounted"
     /\ props.layout = "badge"
     /\ ~loading
     /\ (IsNullish(averageRating) \/ IsNullish(totalReviewCount)))
        => Render = "ErrorState"

\* C9 (as claimed): a mounted instance configured with reviews is Ready in
\* every render, and the loading placeholder is never rendered.
C9_SuppliedNoLoading ==
    (status = "mounted" /\ IsSupplied(props))
        => (Lifecycle = "Ready" /\ Render # "LoadingState")

\* C10: for a configuration with reviews = R no fetch is ever issued, the
\* resolved reviews are R (same elements, same order), profileUrl,
\* totalReviewCount and averageRating are each the configured value or null,
\* and the error flag is never set.
C10_SuppliedFrame ==
    (status \in {"mounted", "unmounted"} /\ IsSupplied(props))
        => /\ fetches = << >>
           /\ reviews = props.reviews
           /\ profileUrl = IF IsNullish(props.profileUrl) THEN Null
                           ELSE props.profileUrl
           /\ totalReviewCount = IF IsNullish(props.totalReviewCount) THEN Null
                                 ELSE props.totalReviewCount
           /\ averageRating = IF IsNullish(props.averageRating) THEN Null
                              ELSE props.averageRating
           /\ ~error

\* C10 witness: a supplied-mode instance with two reviews in the order
\* r2, r1 and a configured count has run its effect and renders the carousel.
C10_Witness ==
    /\ status = "mounted"
    /\ IsSupplied(props)
    /\ ~effectPending
    /\ reviews = Arr(<<r2, r1>>)
    /\ totalReviewCount = Num(120)
    /\ averageRating = Null
    /\ Render = "carousel"

\* What the configuration contract rejects: a supplied totalReviewCount that
\* is negative or not an integer, a supplied averageRating below 1 or above 5.
ShouldReject(c) ==
    \/ /\ c.totalReviewCount \notin {Undefined, Null}
       /\ c.totalReviewCount.v \notin {10 * n : n \in 0..100}
    \/ /\ c.averageRating \notin {Undefined, Null}
       /\ c.averageRating.v \notin 10..50

Placeholders == {"LoadingState", "ErrorState"}
LayoutElements == {"Carousel", "Badge", "renderer"}

\* The element a layout discriminant names.
ElementOf(layout) ==
    CASE layout = "carousel" -> "Carousel"
      [] layout = "badge" -> "Badge"
      [] layout = "custom" -> "renderer"

\* What a render selects: its elements other than the structured-data script.
Selected == RenderTree \ {"script"}

\* C12: every render of a mounted instance selects exactly one of the loading
\* placeholder, the error placeholder, the carousel, the badge and the custom
\* renderer: the loading placeholder whenever loading is set; otherwise the
\* error placeholder whenever the error flag is set or the layout is badge
\* with a null averageRating or totalReviewCount; otherwise the element the
\* layout discriminant names.
C12_RenderDispatch ==
    status = "mounted" =>
        /\ Cardinality(Selected) = 1
        /\ Selected \subseteq Placeholders \cup LayoutElements
        /\ loading => Selected = {"LoadingState"}
        /\ (/\ ~loading
            /\ \/ error
               \/ /\ props.layout = "badge"
                  /\ Null \in {averageRating, totalReviewCount})
               => Selected = {"ErrorState"}
        /\ (/\ ~loading
            /\ ~error
            /\ ~(/\ props.layout = "badge"
                 /\ Null \in {averageRating, totalReviewCount}))
               => Selected = {ElementOf(props.layout)}

\* C12 witness: a failed fetch has set the error flag and loading is still
\* set, so the loading placeholder is what is selected.
C12_Witness ==
    /\ status = "mounted"
    /\ loading
    /\ error
    /\ props.layout = "badge"
    /\ Selected = {"LoadingState"}

\* C13 (as claimed): the structured-data script is in a render exactly when
\* the state is Ready, structuredData is enabled and both averageRating and
\* totalReviewCount are present; when it is, exactly one layout element and
\* no placeholder is with it.
C13_StructuredDataGating ==
    status = "mounted" =>
        /\ "script" \in RenderTree <=>
               /\ Lifecycle = "Ready"
               /\ props.structuredData
               /\ ~IsNullish(averageRating)
               /\ ~IsNullish(totalReviewCount)
        /\ "script" \in RenderTree =>
               /\ Selected \subseteq LayoutElements
               /\ Cardinality(Selected) = 1

\* C17: with layout custom, a render in state Ready calls the renderer once,
\* with one argument, the resolved review sequence (the supplied sequence in
\* supplied mode, the body's sequence after one successful fetch); a render
\* in state Loading or Error does not call it.
C17_CustomRenderer ==
    (status = "mounted" /\ props.layout = "custom") =>
        IF Lifecycle = "Ready"
        THEN /\ Len(RendererCalls) = 1
             /\ Len(RendererCalls[1]) = 1
             /\ RendererCalls[1][1] = reviews
             /\ IsSupplied(props) => RendererCalls[1][1] = props.reviews
             /\ (/\ Len(fetches) = 1
                 /\ fetches[1].pc = "done"
                 /\ fetches[1].outcome = "ok")
                    => RendererCalls[1][1] = Arr(ServerReviews(fetches[1].id))
        ELSE RendererCalls = << >>

\* C17 witness: a custom-layout instance is Ready after a successful fetch
\* for A and calls the renderer with the two reviews of A.
C17_Witness ==
    /\ status = "mounted"
    /\ props.layout = "custom"
    /\ Lifecycle = "Ready"
    /\ Len(fetches) = 1
    /\ fetches[1].pc = "done"
    /\ RendererCalls = << <<Arr(<<r1, r2>>)>> >>

NonAnonymous(r) == ~r.isAnonymous

FirstAtMost(q, n) == SubSeq(q, 1, IF Len(q) < n THEN Len(q) ELSE n)

\* C14 (as claimed): the review entries of an emitted document are the
\* first at most 10, in resolved order, of the resolved reviews whose
\* reviewer is non-anonymous.
C14_StructuredDataReviewList ==
    (status = "mounted" /\ "script" \in RenderTree /\ reviews.k = "arr") =>
        /\ StructuredDataReviews =
               FirstAtMost(SelectSeq(reviews.a, NonAnonymous), 10)
        /\ Len(StructuredDataReviews) <= 10
        /\ \A i \in DOMAIN StructuredDataReviews :
               \E j \in DOMAIN reviews.a :
                   StructuredDataReviews[i] = reviews.a[j]

\* Where a JSON reader that is at position i inside a string finds the
\* closing quote of that string in the text d (0: nowhere).
RECURSIVE JsonStringEnd(_, _)
JsonStringEnd(d, i) ==
    IF i > Len(d) THEN 0
    ELSE IF d[i] = "\\" THEN JsonStringEnd(d, i + 2)
    ELSE IF d[i] = "\"" THEN i
    ELSE JsonStringEnd(d, i + 1)

\* C15 (as claimed): for every review entry of an emitted document, the
\* JSON string written for its comment ends at the quote the template wrote
\* after the comment, not before.
C15_StructuredDataEscaping ==
    (status = "mounted" /\ "script" \in RenderTree /\ reviews.k = "arr") =>
        \A i \in DOMAIN StructuredDataReviews :
            LET text == ReviewBodyText(StructuredDataReviews[i]) IN
            JsonStringEnd(text, 2) = Len(text)

\* The success handler of fetch i has run and the four cells hold the four
\* fields of its body.
FromResponse(i) ==
    /\ fetches[i].outcome \in SuccessOutcomes
    /\ fetches[i].pc \in {"finally", "done"}
    /\ reviews = Body(fetches[i].outcome, fetches[i].id).reviews
    /\ profileUrl = Body(fetches[i].outcome, fetches[i].id).profileUrl
    /\ totalReviewCount =
           Body(fetches[i].outcome, fetches[i].id).totalReviewCount
    /\ averageRating = Body(fetches[i].outcome, fetches[i].id).averageRating

\* No success handler has run and the four cells hold what the
\* configuration gave them.
FromConfiguration ==
    /\ \A i \in DOMAIN fetches :
           ~(/\ fetches[i].outcome \in SuccessOutcomes
             /\ fetches[i].pc \in {"finally", "done"})
    /\ reviews = IF props.reviews = Undefined THEN Arr(<< >>)
                 ELSE props.reviews
    /\ profileUrl = IF props.profileUrl = Undefined THEN Null
                    ELSE props.profileUrl
    /\ totalReviewCount = IF props.totalReviewCount = Undefined THEN Null
                          ELSE props.totalReviewCount
    /\ averageRating = IF props.averageRating = Undefined THEN Null
                       ELSE props.averageRating

RendersLayoutRemotely ==
    /\ status = "mounted"
    /\ IsRemote(props)
    /\ Selected \subseteq LayoutElements

C18_TerminalStates ==
    [][(/\ status = "mounted"
        /\ Len(idHistory) <= 1
        /\ Len(idHistory') <= 1
        /\ Lifecycle \in {"Ready", "Error"})
           => Lifecycle' = Lifecycle]_vars

\* C18 witness: an instance whose featurableId never changed is in Error
\* after its fetch failed.
C18_Witness ==
    /\ status = "mounted"
    /\ Len(idHistory) = 1
    /\ Len(fetches) = 1
    /\ fetches[1].pc = "done"
    /\ fetches[1].outcome = "failure"
    /\ Lifecycle = "Error"

\* The most fetches one instance issues.
MaxFetches == MaxReconfigs + 1

\* The outcome of every chain that has run is recorded and loading is
\* reset; a first fetch leaves the instance Loading until its chain has run,
\* and no layout is rendered for a fetch that failed.
OutcomeRecorded ==
    /\ \A i \in DOMAIN fetches :
           fetches[i].pc = "done" =>
               /\ ~loading
               /\ fetches[i].outcome \in FailureOutcomes =>
                      (error /\ Selected = {"ErrorState"})
    /\ (status = "mounted" /\ Len(idHistory) = 1 /\ Len(fetches) = 1) =>
           /\ ~loading => /\ fetches[1].pc = "done"
                          /\ error \/ FromResponse(1)
           /\ fetches[1].outcome \in FailureOutcomes =>
                  Selected \subseteq Placeholders

\* C19: a fetch that has settled in any way (resolved or rejected) leads to
\* loading being reset, and in every state OutcomeRecorded holds.
C19_LoadingEnds ==
    /\ []OutcomeRecorded
    /\ \A i \in 1..MaxFetches :
           (i \in DOMAIN fetches /\ fetches[i].pc # "fetching") ~> ~loading

\* C19 witness: the chain of a fetch whose body was the JSON value null has
\* run and loading is reset.
C19_Witness ==
    /\ status = "mounted"
    /\ Len(fetches) = 1
    /\ fetches[1].outcome = "nullBody"
    /\ fetches[1].pc = "done"
    /\ ~loading

====
